---------------------------- MODULE Spec2Model ----------------------------
(***************************************************************************)
(* A model of the e3x exchange of gogotelehash (src/e3x/exchange.go) and   *)
(* of its address book (src/unnamed/part_000).                             *)
(*                                                                         *)
(* The Exchange object is the record x; every method that runs under       *)
(* x.mtx is one operator from the record before the call to the record     *)
(* after it, and one action.  Methods that release the mutex in the        *)
(* middle (Dial, Open, deliverPacket, receivedPacket, expire) are split at *)
(* the release and keep their position in pc.                              *)
(***************************************************************************)
EXTENDS Integers, Sequences, FiniteSets, TLC

VARIABLES
    x,          \* the Exchange struct (exchange.go:67-94)
    pc,         \* position of every caller, callback and timer goroutine
    ret,        \* what a finished Dial / Open / deliverPacket returned
    lcl,        \* locals a goroutine keeps while it does not hold x.mtx
    obs,        \* what observers and the wire have seen (events, sequence numbers)
    sw,         \* the Switch behind the peer handler (cmd_peer.go:10-13)
    ch          \* an unreliable channel between two endpoints

vars == <<x, pc, ret, lcl, obs, sw, ch>>

\* the state outside the exchange
elsewhere == <<sw, ch>>

(***************************************************************************)
(* Bounds of the model.                                                    *)
(***************************************************************************)
\* uint32 sequence numbers are scaled to SeqBits bits; arithmetic wraps
\* at 2^SeqBits as the code's wraps at 2^32.
SeqBits == 3
SeqMod == 2 ^ SeqBits
Seqs == 0 .. (SeqMod - 1)
\* time.Now().Unix(), scaled: the clock reads a value of MinNow..MaxNow
MinNow == 2
MaxNow == 3
Nows == MinNow .. MaxNow
\* addresses the peer is seen at in the exchange specifications
MaxAddr == 2
Addrs == 1 .. MaxAddr
\* addresses offered to the address book alone (SpecBook): one more than
\* the book may hold
MaxBookAddr == 17
BookAddrs == 1 .. MaxBookAddr
\* addresses of SpecBook that handshakes are sent to and received from:
\* the first of the identity and the last that is added
ProbeAddrs == {1, MaxBookAddr}
\* channel ids an inbound packet may carry
MaxCID == 2
CIDs == 0 .. MaxCID

(***************************************************************************)
(* Address book (src/unnamed/part_000).                                    *)
(***************************************************************************)
c_MAX_ADDRESS_BOOK_ENTRIES == 16
\* InitSamples: every sample and the latency start at 125 ms
InitLatency == 125
\* latencies (ms) a new sample may bring the mean of an entry to
FastLatency == 100
SlowLatency == 150
SampleLatencies == {FastLatency, SlowLatency}

\* a nil address / a nil *addressBookEntry
NoAddr == 0

newAddressBook == [active |-> NoAddr, known |-> <<>>]

\* &addressBookEntry{Address: addr} after InitSamples, with Reachable and
\* GotResponse set (AddAddress lines 121-126, ReceivedHandshake 143-155).
\* The times of an entry (FirstSeen, LastSeen, LastAttempt) and its samples
\* are not kept: they are read only to compute latency, and the latency a
\* sample leaves is an input of ReceivedHandshake.
newEntry(addr) ==
    [Address |-> addr, Reachable |-> TRUE, GotResponse |-> TRUE,
     latency |-> InitLatency]

Less(a, b) ==
    IF a.Reachable /\ ~b.Reachable THEN TRUE
    ELSE IF ~a.Reachable /\ b.Reachable THEN FALSE
    ELSE a.latency < b.latency

\* sort.Sort(sortedAddressBookEntries(book.known)): the entries ordered by
\* Less.  sort.Sort promises no order among entries that Less does not
\* order; here they keep their relative order, which is one of the orders
\* it may leave.
RECURSIVE InsertEntry(_, _)
InsertEntry(s, e) ==
    IF s = <<>> THEN <<e>>
    ELSE IF Less(e, Head(s)) THEN <<e>> \o s
    ELSE <<Head(s)>> \o InsertEntry(Tail(s), e)

RECURSIVE SortEntries(_)
SortEntries(s) ==
    IF s = <<>> THEN s
    ELSE InsertEntry(SortEntries(SubSeq(s, 1, Len(s) - 1)), s[Len(s)])

indexOf(book, addr) ==
    IF \E i \in 1 .. Len(book.known) : book.known[i].Address = addr
    THEN CHOOSE i \in 1 .. Len(book.known) :
            /\ book.known[i].Address = addr
            /\ \A j \in 1 .. (i - 1) : book.known[j].Address # addr
    ELSE 0

\* updateActive without the test of Reachable in line 169
updateActive_anyFirst(book) ==
    LET sorted == SortEntries(book.known)
        known  == IF Len(sorted) > c_MAX_ADDRESS_BOOK_ENTRIES
                  THEN SubSeq(sorted, 1, c_MAX_ADDRESS_BOOK_ENTRIES)
                  ELSE sorted
    IN  [active |-> IF Len(known) > 0 THEN known[1].Address ELSE NoAddr,
         known  |-> known]

\* updateActive without lines 164-166
updateActive_untruncated(book) ==
    LET known == SortEntries(book.known)
    IN  [active |-> IF Len(known) > 0 /\ known[1].Reachable
                    THEN known[1].Address ELSE NoAddr,
         known  |-> known]

updateActive(book) ==
    LET sorted == SortEntries(book.known)
        known  == IF Len(sorted) > c_MAX_ADDRESS_BOOK_ENTRIES
                  THEN SubSeq(sorted, 1, c_MAX_ADDRESS_BOOK_ENTRIES)
                  ELSE sorted
    IN  [active |-> IF Len(known) > 0 /\ known[1].Reachable
                    THEN known[1].Address ELSE NoAddr,
         known  |-> known]

ActiveAddress(book) == book.active

KnownAddresses(book) == [i \in 1 .. Len(book.known) |-> book.known[i].Address]

RECURSIVE HandshakeWalk(_, _)
HandshakeWalk(known, s) ==
    IF known = <<>> THEN s
    ELSE IF Len(s) = 5 THEN s
    ELSE IF ~Head(known).Reachable THEN s
    ELSE HandshakeWalk(Tail(known), Append(s, Head(known).Address))

\* HandshakeAddresses without the test of lines 63-65
HandshakeAddresses_firstFive(book) ==
    [i \in 1 .. (IF Len(book.known) < 5 THEN Len(book.known) ELSE 5) |->
        book.known[i].Address]

HandshakeAddresses(book) == HandshakeWalk(book.known, <<>>)

\* NextHandshakeEpoch without lines 89-91
NextHandshakeEpoch_noUpdate(book) ==
    [book EXCEPT !.known =
        [i \in 1 .. Len(book.known) |->
            [book.known[i] EXCEPT
                !.Reachable = IF ~book.known[i].GotResponse THEN FALSE ELSE @,
                !.GotResponse = FALSE]]]

NextHandshakeEpoch(book) ==
    LET changed == \E i \in 1 .. Len(book.known) :
                      ~book.known[i].GotResponse /\ book.known[i].Reachable
        known   == [i \in 1 .. Len(book.known) |->
                      [book.known[i] EXCEPT
                         !.Reachable = IF ~book.known[i].GotResponse THEN FALSE ELSE @,
                         !.GotResponse = FALSE]]
        b1      == [book EXCEPT !.known = known]
    IN  IF changed THEN updateActive(b1) ELSE b1

\* sets LastAttempt of the entry, if there is one, and nothing else; the
\* times of an entry are not kept, so the book is as it was
SentHandshake(book, addr) == book

AddAddress(book, addr) ==
    IF indexOf(book, addr) # 0 THEN book
    ELSE updateActive([book EXCEPT !.known = Append(@, newEntry(addr))])

\* lat is the mean AddLatencySample leaves after the sample now - LastAttempt
ReceivedHandshake(book, addr, lat) ==
    LET idx == indexOf(book, addr)
    IN  IF idx = 0
        THEN updateActive([book EXCEPT !.known = Append(@, newEntry(addr))])
        ELSE updateActive([book EXCEPT
                 !.known[idx].latency = lat,
                 !.known[idx].Reachable = TRUE,
                 !.known[idx].GotResponse = TRUE])


(***************************************************************************)
(* Exchange (src/e3x/exchange.go): states, sequence numbers, timers.       *)
(***************************************************************************)
ExchangeInitialising == 0
ExchangeDialing == 2
ExchangeIdle == 4
ExchangeActive == 8
ExchangeExpired == 16
ExchangeBroken == 32
ExchangeStates == {ExchangeInitialising, ExchangeDialing, ExchangeIdle,
                   ExchangeActive, ExchangeExpired, ExchangeBroken}

\* s&(ExchangeIdle|ExchangeActive) > 0
IsOpen(s) == (s \div ExchangeIdle) % 4 > 0
\* s&(ExchangeExpired|ExchangeBroken) > 0
IsClosed(s) == (s \div ExchangeExpired) % 4 > 0

\* the cipher set id of the exchange, and another one a handshake may carry
LocalCSID == 3
OtherCSID == 1
CSIDs == {LocalCSID, OtherCSID}

\* no response packet / no error
NoPacket == -1

\* x.cndState.Broadcast(): every goroutine in cndState.Wait() is released
Broadcast(e) == [e EXCEPT !.waiters = {}]

\* the Exchange newExchange returns: the three timers are armed by
\* time.AfterFunc (131-133), resetExpire finds no channel and a state that
\* is not open and leaves tExpire as it is, rescheduleHandshake resets
\* tDeliverHandshake.  high is cipher.IsHigh(); remoteIdent is whether
\* x.remoteIdent is set; addrs are remoteIdent.addrs.
RECURSIVE AddAll(_, _)
AddAll(book, addrs) ==
    IF addrs = <<>> THEN book
    ELSE AddAll(AddAddress(book, Head(addrs)), Tail(addrs))

newExchange(high, remoteIdent, addrs) ==
    [state |-> ExchangeInitialising,
     lastLocalSeq |-> 0, lastRemoteSeq |-> 0, nextSeq |-> 0,
     remoteIdent |-> remoteIdent, csid |-> LocalCSID, high |-> high,
     nextChannelID |-> 0, channels |-> <<>>,
     addressBook |-> AddAll(newAddressBook, addrs),
     mtx |-> FALSE, waiters |-> {},
     tExpire |-> TRUE, tBreak |-> TRUE, tDeliverHandshake |-> TRUE]

\* getNextSeq at clock reading n: the exchange after the call and the
\* sequence number returned
\* lines 575-577: seq is raised to the clock reading n
seqAtLeastNow(seq, n) == IF seq < n THEN n ELSE seq
\* lines 578-583: seq is raised past a last seq (uint32 addition)
seqPast(seq, last) == IF seq < last THEN (last + 1) % SeqMod ELSE seq
\* lines 584-586
seqNotZero(seq) == IF seq = 0 THEN 1 ELSE seq
\* lines 588-598 (uint32 increment)
seqWithParity(seq, high) ==
    IF high
    THEN (IF seq % 2 = 0 THEN (seq + 1) % SeqMod ELSE seq)
    ELSE (IF seq % 2 = 1 THEN (seq + 1) % SeqMod ELSE seq)
\* lines 600-601
getNextSeqReturn(e, seq) ==
    [x |-> [e EXCEPT !.nextSeq = (seq + 2) % SeqMod], seq |-> seq]

getNextSeq(e, n) ==
    getNextSeqReturn(e,
        seqWithParity(
            seqNotZero(
                seqPast(seqPast(seqAtLeastNow(e.nextSeq, n), e.lastLocalSeq),
                        e.lastRemoteSeq)),
            e.high))

isLocalSeq(e, seq) == IF e.high THEN seq % 2 = 1 ELSE seq % 2 = 0

resetExpire(e) ==
    LET active == DOMAIN e.channels # {}
        e1 == [e EXCEPT !.tExpire = IF active THEN FALSE
                                    ELSE IF IsOpen(e.state) THEN TRUE ELSE @]
    IN  IF IsOpen(e1.state)
        THEN LET new == IF active THEN ExchangeActive ELSE ExchangeIdle
                 e2  == [e1 EXCEPT !.state = new]
             IN  IF new # e1.state THEN Broadcast(e2) ELSE e2
        ELSE e1

resetBreak(e) == [e EXCEPT !.tBreak = TRUE]

\* only the timer: the delay x.nextHandshake is not modelled
rescheduleHandshake(e) == [e EXCEPT !.tDeliverHandshake = TRUE]

\* getNextChannelID: the exchange after the call and the id returned
\* (uint32 ids; the model never opens enough channels to wrap)
getNextChannelID(e) ==
    LET i0 == e.nextChannelID
        i1 == IF i0 = 0 THEN 1 ELSE i0
        i2 == IF e.high
              THEN (IF i1 % 2 = 0 THEN i1 + 1 ELSE i1)
              ELSE (IF i1 % 2 = 1 THEN i1 + 1 ELSE i1)
    IN  [x |-> [e EXCEPT !.nextChannelID = i2 + 2], id |-> i2]

\* x.channels[id] = c
Register(channels, id, c) ==
    [i \in DOMAIN channels \cup {id} |-> IF i = id THEN c ELSE channels[i]]

\* delete(x.channels, id)
Unregister(channels, id) ==
    [i \in DOMAIN channels \ {id} |-> channels[i]]

\* generateHandshake(seq) at clock reading n; encOK is whether
\* cipher.EncryptHandshake and lob.Encode succeed.  pkt is the seq the
\* packet carries, or NoPacket with the error.
\* lines 774-788, for the exchange and the seq g that lines 770-772 leave
generateHandshakeEncode(g, fresh, encOK) ==
    IF ~encOK THEN [x |-> g.x, pkt |-> NoPacket, fresh |-> fresh, seq |-> g.seq]
    ELSE [x     |-> [g.x EXCEPT !.lastLocalSeq = IF @ < g.seq THEN g.seq ELSE @],
          pkt   |-> g.seq,
          fresh |-> fresh,
          seq   |-> g.seq]

generateHandshake(e, seq, n, encOK) ==
    generateHandshakeEncode(
        IF seq = 0 THEN getNextSeq(e, n) ELSE [x |-> e, seq |-> seq],
        seq = 0, encOK)

\* SentHandshake for every address of addrs the write to which succeeded
RECURSIVE SentAll(_, _, _)
SentAll(book, addrs, wrOK) ==
    IF addrs = <<>> THEN book
    ELSE SentAll(IF Head(addrs) \in wrOK THEN SentHandshake(book, Head(addrs)) ELSE book,
                 Tail(addrs), wrOK)

\* deliverHandshake(seq, addr); wrOK are the addresses endpoint.writeMessage
\* succeeds for.  sent is whether a packet was generated and offered to
\* the endpoint.
deliverHandshake(e, seq, addr, n, encOK, wrOK) ==
    LET book1 == IF addr # NoAddr THEN e.addressBook
                 ELSE NextHandshakeEpoch(e.addressBook)
        addrs == IF addr # NoAddr THEN <<addr>> ELSE HandshakeAddresses(book1)
        g     == generateHandshake([e EXCEPT !.addressBook = book1], seq, n, encOK)
    IN  IF g.pkt = NoPacket
        THEN [x |-> g.x, sent |-> FALSE, fresh |-> g.fresh, seq |-> g.seq]
        ELSE [x |-> [g.x EXCEPT !.addressBook = SentAll(@, addrs, wrOK)],
              sent |-> TRUE, fresh |-> g.fresh, seq |-> g.seq]

\* expire without the test of lines 544-547
expire_unguarded(e, broken) ==
    Broadcast([e EXCEPT
        !.state = IF broken THEN ExchangeBroken ELSE ExchangeExpired,
        !.tBreak = FALSE, !.tExpire = FALSE, !.tDeliverHandshake = FALSE])

\* expire(err) up to x.mtx.Unlock(); broken is err != nil
expire(e, broken) ==
    IF e.state = ExchangeExpired \/ e.state = ExchangeBroken THEN e
    ELSE Broadcast([e EXCEPT
             !.state = IF broken THEN ExchangeBroken ELSE ExchangeExpired,
             !.tBreak = FALSE, !.tExpire = FALSE, !.tDeliverHandshake = FALSE])

\* A decrypted handshake: at is handshake.At(), csid handshake.CSID(),
\* cipherOK whether cipher.ApplyHandshake accepts it, identOK whether
\* NewIdentity accepts its key and parts.  NilHandshake is a nil one.
NilHandshake == [at |-> 0, csid |-> 0, cipherOK |-> FALSE, identOK |-> FALSE]

Rejected == [response |-> NoPacket, ok |-> FALSE, opened |-> FALSE,
             fresh |-> FALSE, seq |-> 0]

\* lines 841-842: a handshake of local parity is a response
applyHandshakeResponse(e, src, lat) ==
    [x |-> [resetBreak(e) EXCEPT !.addressBook = ReceivedHandshake(@, src, lat)],
     pkt |-> NoPacket, fresh |-> FALSE, seq |-> 0, err |-> FALSE]

\* lines 845-851: any other one is a request and is answered
generateHandshakeErr(r) == r @@ [err |-> r.pkt = NoPacket]

\* lines 845-851 calling resetBreak as line 841 does
applyHandshakeRequest_resetsBreak(e, seq, src, n, encOK) ==
    generateHandshakeErr(
        generateHandshake(resetBreak([e EXCEPT !.addressBook = AddAddress(@, src)]),
                          seq, n, encOK))

applyHandshakeRequest(e, seq, src, n, encOK) ==
    generateHandshakeErr(
        generateHandshake([e EXCEPT !.addressBook = AddAddress(@, src)],
                          seq, n, encOK))

\* lines 854-862
applyHandshakeIdle(e) ==
    IF e.state = ExchangeDialing \/ e.state = ExchangeInitialising
    THEN Broadcast(resetExpire([e EXCEPT !.state = ExchangeIdle]))
    ELSE e

\* lines 848-864, for the result g of lines 840-847
applyHandshakeOpen(g) ==
    IF g.err
    THEN [x |-> g.x, response |-> NoPacket, ok |-> FALSE, opened |-> FALSE,
          fresh |-> g.fresh, seq |-> g.seq]
    ELSE [x |-> applyHandshakeIdle(g.x), response |-> g.pkt, ok |-> TRUE,
          opened |-> g.x.state = ExchangeDialing \/ g.x.state = ExchangeInitialising,
          fresh |-> g.fresh, seq |-> g.seq]

\* applyHandshake(handshake, src).  lat is the mean latency a response
\* leaves on its path.  opened is whether ExchangeOpenedEvent is triggered;
\* fresh, seq report a call of getNextSeq and what it returned.
applyHandshake(e, h, src, n, encOK, lat) ==
    IF h = NilHandshake THEN [x |-> e] @@ Rejected
    ELSE IF h.at < e.lastRemoteSeq THEN [x |-> e] @@ Rejected
    ELSE IF h.csid # e.csid THEN [x |-> e] @@ Rejected
    ELSE IF ~h.cipherOK THEN [x |-> e] @@ Rejected
    ELSE IF ~e.remoteIdent /\ ~h.identOK THEN [x |-> e] @@ Rejected
    ELSE applyHandshakeOpen(
             IF isLocalSeq(e, h.at)
             THEN applyHandshakeResponse([e EXCEPT !.remoteIdent = TRUE], src, lat)
             ELSE applyHandshakeRequest([e EXCEPT !.remoteIdent = TRUE],
                                        h.at, src, n, encOK))

\* receivedHandshake(op), once op.msg has decoded and decrypted to h
receivedHandshake(e, h, src, n, encOK, lat) ==
    LET r == applyHandshake(e, h, src, n, encOK, lat)
    IN  IF ~r.ok THEN r
        ELSE [r EXCEPT !.x = [r.x EXCEPT !.lastRemoteSeq = h.at]]


(***************************************************************************)
(* Callers and callbacks.  A goroutine inside cndState.Wait() has pc       *)
(* "wait" and is in x.waiters until a Broadcast; it then needs x.mtx to    *)
(* go on.  x.mtx is TRUE only when a call has returned holding it: every   *)
(* other critical section is one step.                                     *)
(***************************************************************************)
DialProcs == {"dial1", "dial2"}
OpenProcs == {"open1", "open2"}
DeliverProcs == {"deliver1"}
PacketProcs == {"rcv1"}
ExpireCallbacks == {"onExpire", "onBreak"}
Callbacks == ExpireCallbacks \cup {"onDeliverHandshake"}
Procs == DialProcs \cup OpenProcs \cup DeliverProcs \cup PacketProcs \cup Callbacks

\* the error a finished call returned
NoReturn == "none"
\* of a call of Dial: whether it took the branch of line 304, and whether
\* deliverHandshake then offered a handshake to the endpoint
NoLocals == [dialed |-> FALSE, emitted |-> FALSE]

\* what has been observed of the exchange from outside:
\*   opened, closed   the ExchangeOpenedEvents / ExchangeClosedEvents triggered
\*   prevSeq, lastSeq the last two values getNextSeq returned (-1: none yet)
\*   accMax, accLast  the last accepted handshake's seq, and the largest
\*                    seq accepted before it (-1: none yet)
\* Sequence numbers are recorded only when watch is set.
NoSeq == 0 - 1
NoObs == [watch |-> FALSE, opened |-> 0, closed |-> 0,
          prevSeq |-> NoSeq, lastSeq |-> NoSeq,
          accMax |-> NoSeq, accLast |-> NoSeq]

\* events are counted up to MaxEvents
MaxEvents == 2
Count(n) == IF n < MaxEvents THEN n + 1 ELSE n

\* r reports a call of getNextSeq (fresh) and the value it returned (seq)
ObsSeq(o, r) ==
    IF o.watch /\ r.fresh
    THEN [o EXCEPT !.prevSeq = o.lastSeq, !.lastSeq = r.seq]
    ELSE o

\* r is the result of applyHandshake for a handshake with seq at
ObsHandshake(o, r, at) ==
    LET o1 == ObsSeq(o, r)
        o2 == IF r.opened THEN [o1 EXCEPT !.opened = Count(@)] ELSE o1
    IN  IF o.watch /\ r.ok
        THEN [o2 EXCEPT !.accMax = IF o.accLast > @ THEN o.accLast ELSE @,
                        !.accLast = at]
        ELSE o2

\* cndState.Wait() of goroutine p
CondWait(e, p) == [e EXCEPT !.waiters = @ \cup {p}]

Runnable(p) == pc[p] = "idle" \/ (pc[p] = "wait" /\ p \notin x.waiters)

(***************************************************************************)
(* Dial (299-319)                                                          *)
(***************************************************************************)
\* lines 304-308 taken in ExchangeDialing as well
DialEnter_whileDialing(e, n, encOK, wrOK) ==
    IF e.state = 0 \/ e.state = ExchangeDialing
    THEN LET d == deliverHandshake([e EXCEPT !.state = ExchangeDialing],
                                   0, NoAddr, n, encOK, wrOK)
         IN  [x |-> rescheduleHandshake(d.x), dialed |-> TRUE, sent |-> d.sent,
              fresh |-> d.fresh, seq |-> d.seq]
    ELSE [x |-> e, dialed |-> FALSE, sent |-> FALSE, fresh |-> FALSE, seq |-> 0]

\* lines 304-308
DialEnter(e, n, encOK, wrOK) ==
    IF e.state = 0
    THEN LET d == deliverHandshake([e EXCEPT !.state = ExchangeDialing],
                                   0, NoAddr, n, encOK, wrOK)
         IN  [x |-> rescheduleHandshake(d.x), dialed |-> TRUE, sent |-> d.sent,
              fresh |-> d.fresh, seq |-> d.seq]
    ELSE [x |-> e, dialed |-> FALSE, sent |-> FALSE, fresh |-> FALSE, seq |-> 0]

\* lines 314-318 testing for ExchangeBroken alone
DialReturn_brokenOnly(e) ==
    IF e.state = ExchangeBroken THEN "BrokenExchangeError" ELSE "nil"

\* lines 314-318: the error returned for the state found after the loop
DialReturn(e) == IF ~IsOpen(e.state) THEN "BrokenExchangeError" ELSE "nil"

\* lines 310-318, from the loop test on
DialLoop(p, e) ==
    IF e.state = ExchangeDialing
    THEN /\ x' = CondWait(e, p)
         /\ pc' = [pc EXCEPT ![p] = "wait"]
         /\ ret' = ret
    ELSE /\ x' = e
         /\ pc' = [pc EXCEPT ![p] = "done"]
         /\ ret' = [ret EXCEPT ![p] = DialReturn(e)]

Dial(p, n, encOK, wrOK) ==
    /\ pc[p] = "idle"
    /\ ~x.mtx
    /\ LET r == DialEnter(x, n, encOK, wrOK)
       IN  /\ DialLoop(p, r.x)
           /\ lcl' = [lcl EXCEPT ![p] = [dialed |-> r.dialed, emitted |-> r.sent]]
           /\ obs' = ObsSeq(obs, r)
    /\ UNCHANGED elsewhere

DialWake(p) ==
    /\ pc[p] = "wait"
    /\ p \notin x.waiters
    /\ ~x.mtx
    /\ DialLoop(p, x)
    /\ UNCHANGED <<lcl, obs, elsewhere>>

(***************************************************************************)
(* Open (703-733)                                                          *)
(***************************************************************************)
\* the *Channel newChannel returns; serverside is its fourth argument
newChannel(serverside) == [serverside |-> serverside]

\* lines 720-728 testing IsClosed where the code tests !IsOpen
OpenBody_unlessClosed(e) ==
    IF IsClosed(e.state)
    THEN [x |-> e, err |-> "BrokenExchangeError", id |-> 0]
    ELSE LET g == getNextChannelID(e)
         IN  [x |-> resetExpire([g.x EXCEPT
                      !.channels = Register(@, g.id, newChannel(FALSE))]),
              err |-> "nil", id |-> g.id]

\* lines 720-728, after the wait
OpenBody(e) ==
    IF ~IsOpen(e.state)
    THEN [x |-> e, err |-> "BrokenExchangeError", id |-> 0]
    ELSE LET g == getNextChannelID(e)
         IN  [x |-> resetExpire([g.x EXCEPT
                      !.channels = Register(@, g.id, newChannel(FALSE))]),
              err |-> "nil", id |-> g.id]

Open(p) ==
    /\ Runnable(p)
    /\ ~x.mtx
    /\ IF x.state = ExchangeDialing
       THEN /\ x' = CondWait(x, p)
            /\ pc' = [pc EXCEPT ![p] = "wait"]
            /\ ret' = ret
       ELSE LET r == OpenBody(x)
            IN  /\ x' = r.x
                /\ pc' = [pc EXCEPT ![p] = "done"]
                /\ ret' = [ret EXCEPT ![p] = r.err]
    /\ UNCHANGED <<lcl, obs, elsewhere>>

(***************************************************************************)
(* deliverPacket (510-539)                                                 *)
(***************************************************************************)
\* lines 515-521 without the test of the state
deliverPacketBody_unchecked(e) == [x |-> e, err |-> "nil"]

\* lines 515-521: the return at 516 leaves x.mtx locked
deliverPacketBody(e) ==
    IF ~IsOpen(e.state)
    THEN [x |-> [e EXCEPT !.mtx = TRUE], err |-> "BrokenExchangeError"]
    ELSE [x |-> e, err |-> "nil"]

\* ioOK: whether EncryptPacket, lob.Encode and writeMessage all succeed
deliverPacket(p, ioOK) ==
    /\ Runnable(p)
    /\ ~x.mtx
    /\ IF x.state = ExchangeDialing
       THEN /\ x' = CondWait(x, p)
            /\ pc' = [pc EXCEPT ![p] = "wait"]
            /\ ret' = ret
       ELSE LET r == deliverPacketBody(x)
            IN  /\ x' = r.x
                /\ pc' = [pc EXCEPT ![p] = "done"]
                /\ ret' = [ret EXCEPT ![p] =
                             IF r.err = "nil" /\ ~ioOK THEN "error" ELSE r.err]
    /\ UNCHANGED <<lcl, obs, elsewhere>>

(***************************************************************************)
(* receivedPacket (421-508)                                                *)
(***************************************************************************)
\* lines 430-439: the state is read under the mutex, which is then released
receivedPacketCheck(p) ==
    /\ pc[p] = "idle"
    /\ ~x.mtx
    /\ pc' = [pc EXCEPT ![p] = IF IsOpen(x.state) THEN "checked" ELSE "idle"]
    /\ UNCHANGED <<x, ret, lcl, obs, elsewhere>>

\* A packet: decodes is whether lob.Decode and DecryptPacket succeed, the
\* rest is its header; listener is whether endpoint.listener(typ) is not nil.
Packets ==
    [decodes : BOOLEAN, hasC : BOOLEAN, cid : CIDs, hasType : BOOLEAN,
     listener : BOOLEAN]

\* lines 467-504
receivedPacketRegister(e, pkt) ==
    IF pkt.cid \in DOMAIN e.channels THEN e
    ELSE IF ~pkt.hasType THEN e
    ELSE IF ~pkt.listener THEN e
    ELSE resetExpire([e EXCEPT !.channels = Register(@, pkt.cid, newChannel(TRUE))])

\* lines 441-508
receivedPacketDeliver(p, pkt) ==
    /\ pc[p] = "checked"
    /\ IF ~pkt.decodes \/ ~pkt.hasC
       THEN x' = x
       ELSE /\ ~x.mtx
            /\ x' = receivedPacketRegister(x, pkt)
    /\ pc' = [pc EXCEPT ![p] = "idle"]
    /\ UNCHANGED <<ret, lcl, obs, elsewhere>>

(***************************************************************************)
(* unregisterChannel (655-668)                                             *)
(***************************************************************************)
\* lines 661-667 without the call of resetExpire
unregisterChannelBody_noReset(e, id) ==
    IF id \in DOMAIN e.channels
    THEN [e EXCEPT !.channels = Unregister(@, id)]
    ELSE e

unregisterChannelBody(e, id) ==
    IF id \in DOMAIN e.channels
    THEN resetExpire([e EXCEPT !.channels = Unregister(@, id)])
    ELSE e

unregisterChannel(id) ==
    /\ ~x.mtx
    /\ x' = unregisterChannelBody(x, id)
    /\ UNCHANGED <<pc, ret, lcl, obs, elsewhere>>


(***************************************************************************)
(* Timers.  A timer that fires starts its callback in a goroutine of its   *)
(* own, which then waits for x.mtx like any caller; Stop and Reset do not  *)
(* reach a callback that has started.  A timer does not fire again while   *)
(* its earlier callback is still running.                                  *)
(***************************************************************************)
ExpireFires ==
    /\ x.tExpire
    /\ pc["onExpire"] = "idle"
    /\ x' = [x EXCEPT !.tExpire = FALSE]
    /\ pc' = [pc EXCEPT !["onExpire"] = "pending"]
    /\ UNCHANGED <<ret, lcl, obs, elsewhere>>

BreakFires ==
    /\ x.tBreak
    /\ pc["onBreak"] = "idle"
    /\ x' = [x EXCEPT !.tBreak = FALSE]
    /\ pc' = [pc EXCEPT !["onBreak"] = "pending"]
    /\ UNCHANGED <<ret, lcl, obs, elsewhere>>

\* cap bounds the sequence numbers the periodic handshakes use up
DeliverHandshakeFires(cap) ==
    /\ x.nextSeq < cap
    /\ x.tDeliverHandshake
    /\ pc["onDeliverHandshake"] = "idle"
    /\ x' = [x EXCEPT !.tDeliverHandshake = FALSE]
    /\ pc' = [pc EXCEPT !["onDeliverHandshake"] = "pending"]
    /\ UNCHANGED <<ret, lcl, obs, elsewhere>>

\* onExpire (613-618) and onBreak (620-625): expire up to its Unlock
onExpireOrBreak(cb) ==
    /\ pc[cb] = "pending"
    /\ ~x.mtx
    /\ x' = expire(x, cb = "onBreak")
    /\ pc' = [pc EXCEPT ![cb] = IF IsClosed(x.state) THEN "idle" ELSE "teardown"]
    /\ UNCHANGED <<ret, lcl, obs, elsewhere>>

\* expire lines 565-570, without the mutex
expireTeardown(cb) ==
    /\ pc[cb] = "teardown"
    /\ obs' = [obs EXCEPT !.closed = Count(@)]
    /\ pc' = [pc EXCEPT ![cb] = "idle"]
    /\ UNCHANGED <<x, ret, lcl, elsewhere>>

\* lines 367-368
onDeliverHandshakeBody(e, n, encOK, wrOK) ==
    deliverHandshake(rescheduleHandshake(e), 0, NoAddr, n, encOK, wrOK)

onDeliverHandshake(n, encOK, wrOK) ==
    /\ pc["onDeliverHandshake"] = "pending"
    /\ ~x.mtx
    /\ LET r == onDeliverHandshakeBody(x, n, encOK, wrOK)
       IN  /\ x' = r.x
           /\ obs' = ObsSeq(obs, r)
    /\ pc' = [pc EXCEPT !["onDeliverHandshake"] = "idle"]
    /\ UNCHANGED <<ret, lcl, elsewhere>>

(***************************************************************************)
(* Handshakes and paths                                                    *)
(***************************************************************************)
\* receivedHandshake for a message that decodes and decrypts to h
ReceivedHandshakeCall(h, src, n, encOK, lat) ==
    /\ ~x.mtx
    /\ LET r == receivedHandshake(x, h, src, n, encOK, lat)
       IN  /\ x' = r.x
           /\ obs' = ObsHandshake(obs, r, h.at)
    /\ UNCHANGED <<pc, ret, lcl, elsewhere>>

\* the public, out-of-band ApplyHandshake (794-799)
ApplyHandshake(h, src, n, encOK, lat) ==
    /\ ~x.mtx
    /\ LET r == applyHandshake(x, h, src, n, encOK, lat)
       IN  /\ x' = r.x
           /\ obs' = ObsHandshake(obs, r, h.at)
    /\ UNCHANGED <<pc, ret, lcl, elsewhere>>

\* the public GenerateHandshake (756-761)
GenerateHandshake(n, encOK) ==
    /\ ~x.mtx
    /\ LET r == generateHandshake(x, 0, n, encOK)
       IN  /\ x' = r.x
           /\ obs' = ObsSeq(obs, r)
    /\ UNCHANGED <<pc, ret, lcl, elsewhere>>

AddPathCandidate(addr) ==
    /\ ~x.mtx
    /\ x' = [x EXCEPT !.addressBook = AddAddress(@, addr)]
    /\ UNCHANGED <<pc, ret, lcl, obs, elsewhere>>

\* handshakes that pass every check but the one on their seq
GoodHandshakes(ats) ==
    [at : ats, csid : {LocalCSID}, cipherOK : {TRUE}, identOK : {TRUE}]

\* one handshake for every reason applyHandshake drops one
BadHandshakes(ats) ==
    {NilHandshake}
    \cup [at : ats, csid : {OtherCSID}, cipherOK : {TRUE}, identOK : {TRUE}]
    \cup [at : ats, csid : {LocalCSID}, cipherOK : {FALSE}, identOK : {TRUE}]
    \cup [at : ats, csid : {LocalCSID}, cipherOK : {TRUE}, identOK : {FALSE}]


(***************************************************************************)
(* The peer handler (cmd_peer.go).  A relay serves "peer" requests by      *)
(* opening a "connect" channel to the requested peer; the recipient of a   *)
(* "connect" adds the introduced peer and seeks it.                        *)
(***************************************************************************)
MaxHashname == 3
Hashnames == 1 .. MaxHashname
MaxIP == 2
IPs == 1 .. MaxIP
\* an IP header that, joined with the port, is no address
BadIP == 0
\* the observed port of a sender and the port of its LAN address
Ports == {1, 2}
\* a nil *rsa.PublicKey; the keys are 1 .. MaxHashname
NoKey == 0
\* a nil pkt.hdr.Local
NoLocal == [IP |-> BadIP, Port |-> 0]
\* the handler made no call to OpenChannel or Seek
NoCall == [op |-> "none"]

\* a hashname is written as its digits; other strings do not parse
HashnameFromString(str) ==
    IF Len(str) = 1
    THEN [err |-> FALSE, hashname |-> str[1]]
    ELSE [err |-> TRUE, hashname |-> 0]

\* the DER form of a key, and of a body that is no key
enc_DER_RSA(key) == [der |-> key]
dec_DER_RSA(body) == [err |-> body.der = NoKey, pubkey |-> body.der]

\* the hashname make_addr derives from a public key
KeyHashname(key) == (key % MaxHashname) + 1

\* h.sw as the handler uses it: its hashname, its peer table (hashname to
\* address) and, in called, the call the handler's last run made
newSwitch(hashname) == [hashname |-> hashname, peers |-> << >>, called |-> NoCall]

\* lines 92-119: the peer is known
serve_peerOpen(req, peer_hashname, peer) ==
    IF ~req.encOK THEN NoCall
    ELSE [op |-> "OpenChannel", to |-> peer_hashname, Type |-> "connect",
          IP |-> IF req.Local # NoLocal /\ peer.IP = req.addr.IP
                 THEN req.Local.IP ELSE req.addr.IP,
          Port |-> IF req.Local # NoLocal /\ peer.IP = req.addr.IP
                   THEN req.Local.Port ELSE req.addr.Port,
          body |-> enc_DER_RSA(req.addr.pubkey)]

\* lines 75-90 without the test of line 79
serve_peerChecks_noSenderTest(s, req, peer_hashname) ==
    IF peer_hashname = s.hashname THEN NoCall
    ELSE IF req.addr.pubkey = NoKey THEN NoCall
    ELSE IF peer_hashname \notin DOMAIN s.peers THEN NoCall
    ELSE serve_peerOpen(req, peer_hashname, s.peers[peer_hashname])

\* lines 75-90
serve_peerChecks(s, req, peer_hashname) ==
    IF peer_hashname = s.hashname THEN NoCall
    ELSE IF peer_hashname = req.addr.hashname THEN NoCall
    ELSE IF req.addr.pubkey = NoKey THEN NoCall
    ELSE IF peer_hashname \notin DOMAIN s.peers THEN NoCall
    ELSE serve_peerOpen(req, peer_hashname, s.peers[peer_hashname])

\* serve_peer (61-123): the call it makes for the request its channel holds
serve_peer(s, req) ==
    IF req.err THEN NoCall
    ELSE IF HashnameFromString(req.Peer).err THEN NoCall
    ELSE serve_peerChecks(s, req, HashnameFromString(req.Peer).hashname)

\* make_addr (138-147) for a decoded key
make_addr(IP, Port, pubkey) ==
    [err |-> IP = BadIP, hashname |-> KeyHashname(pubkey), IP |-> IP,
     Port |-> Port, pubkey |-> pubkey]

\* AddPeer: the peer table with the address added
AddPeer(s, addr) ==
    [s EXCEPT !.peers = [h \in DOMAIN @ \cup {addr.hashname} |->
                           IF h \in DOMAIN @ THEN @[h] ELSE addr]]

\* lines 149-157; disc is the second result of AddPeer
serve_connectAdd(s, addr, disc) ==
    [AddPeer(s, addr) EXCEPT !.called =
        IF ~disc THEN [op |-> "Seek", to |-> addr.hashname] ELSE NoCall]

\* serve_connect (125-158)
serve_connect(s, req, disc) ==
    IF req.err THEN [s EXCEPT !.called = NoCall]
    ELSE IF dec_DER_RSA(req.body).err THEN [s EXCEPT !.called = NoCall]
    ELSE IF make_addr(req.IP, req.Port, dec_DER_RSA(req.body).pubkey).err
         THEN [s EXCEPT !.called = NoCall]
    ELSE serve_connectAdd(s, make_addr(req.IP, req.Port,
                                       dec_DER_RSA(req.body).pubkey), disc)

\* what pop_rcv_pkt hands to serve_peer: an error, or a packet with its
\* sender's address; encOK is whether enc_DER_RSA succeeds on the sender's key
PopError == [err |-> TRUE]
PeerRequests ==
    {PopError} \cup
    [err : {FALSE}, Peer : {<<h>> : h \in Hashnames} \cup {<<>>},
     addr : [hashname : Hashnames, IP : IPs, Port : {1}, pubkey : {NoKey, 1}],
     Local : {NoLocal, [IP |-> MaxIP, Port |-> 2]}, encOK : BOOLEAN]

\* what pop_rcv_pkt hands to serve_connect
ConnectRequests ==
    {PopError} \cup
    [err : {FALSE}, IP : IPs \cup {BadIP}, Port : {1},
     body : {enc_DER_RSA(k) : k \in 0 .. MaxHashname}]

ServePeer(req) ==
    /\ sw' = [sw EXCEPT !.called = serve_peer(sw, req)]
    /\ UNCHANGED <<x, pc, ret, lcl, obs, ch>>

\* the second result of AddPeer, whose body is in another file, is left open
ServeConnect(req, disc) ==
    /\ sw' = serve_connect(sw, req, disc)
    /\ UNCHANGED <<x, pc, ret, lcl, obs, ch>>


(***************************************************************************)
(* An unreliable channel between a driver and a worker                     *)
(* (tools/th-test/test_channel_unreliable.go), over a transport that       *)
(* neither drops nor reorders.  Each side of the channel keeps the         *)
(* datagrams it accepted in buf; a packet with end set marks the remote    *)
(* side as done.                                                           *)
(***************************************************************************)
MaxToken == 2
Tokens == 1 .. MaxToken
\* the token header of a packet that has none
NoToken == 0
DataPacket(token) == [token |-> token, end |-> FALSE]
EndPacket == [token |-> NoToken, end |-> TRUE]

newChannelSide == [buf |-> <<>>, ended_local |-> FALSE, ended_remote |-> FALSE]

\* the side c takes a datagram off the wire
AcceptPacket(c, pkt) ==
    IF pkt.end
    THEN [c EXCEPT !.ended_remote = TRUE]
    ELSE [c EXCEPT !.buf = Append(@, pkt)]

\* read_packet returning EOF as soon as the remote end was seen
ReadPacket_eofOnEnd(c) ==
    IF c.ended_remote THEN [c |-> c, pkt |-> EndPacket, err |-> "EOF"]
    ELSE IF c.buf # <<>>
    THEN [c |-> [c EXCEPT !.buf = Tail(@)], pkt |-> Head(c.buf), err |-> "nil"]
    ELSE [c |-> c, pkt |-> EndPacket, err |-> "wait"]

\* read_packet: the next accepted datagram; EOF after the remote end once
\* the buffer is drained; "wait" stands for a call that blocks
ReadPacket(c) ==
    IF c.buf # <<>>
    THEN [c |-> [c EXCEPT !.buf = Tail(@)], pkt |-> Head(c.buf), err |-> "nil"]
    ELSE IF c.ended_remote THEN [c |-> c, pkt |-> EndPacket, err |-> "EOF"]
    ELSE [c |-> c, pkt |-> EndPacket, err |-> "wait"]

\* write_packet: sent at once on wire; ChannelClosed after the local end
WritePacket(c, wire, pkt) ==
    IF c.ended_local
    THEN [c |-> c, wire |-> wire, err |-> "ChannelClosed"]
    ELSE [c |-> c, wire |-> Append(wire, pkt), err |-> "nil"]

\* close: a final packet with end set
CloseChannel(c, wire) ==
    [c |-> [c EXCEPT !.ended_local = TRUE], wire |-> Append(wire, EndPacket)]

\* ch: the two sides, the two directions of the wire, where the driver and
\* the worker are in their code, the worker's loop counter i, the tokens
\* the driver asserted (written) and the worker asserted (read), and
\* whether the worker's ReadPacket has returned io.EOF
newChannelTest ==
    [driver |-> newChannelSide, worker |-> newChannelSide,
     toWorker |-> <<>>, toDriver |-> <<>>,
     dpc |-> "write1", wpc |-> "read", i |-> 1,
     written |-> <<>>, read |-> <<>>, eof |-> FALSE]

ChannelStep(c) ==
    /\ ch' = c
    /\ UNCHANGED <<x, pc, ret, lcl, obs, sw>>

\* ChannelUnreliable_Driver lines 78-85, 89-96 and 98-105
DriverWrite(token) ==
    /\ ch.dpc \in {"write1", "write2", "write3"}
    /\ WritePacket(ch.driver, ch.toWorker, DataPacket(token)).err = "nil"
    /\ ChannelStep([ch EXCEPT
          !.toWorker = WritePacket(ch.driver, @, DataPacket(token)).wire,
          !.written = Append(@, token),
          !.dpc = [write1 |-> "read", write2 |-> "write3", write3 |-> "close"][@]])

\* line 87
DriverRead ==
    /\ ch.dpc = "read"
    /\ ReadPacket(ch.driver).err # "wait"
    /\ ChannelStep([ch EXCEPT !.driver = ReadPacket(@).c, !.dpc = "write2"])

\* lines 107-118
DriverClose ==
    /\ ch.dpc = "close"
    /\ ChannelStep([ch EXCEPT
          !.driver = CloseChannel(@, ch.toWorker).c,
          !.toWorker = CloseChannel(ch.driver, @).wire,
          !.dpc = "done"])

\* ChannelUnreliable_Worker lines 30-45: one turn of the loop
WorkerReadPacket(c, r) ==
    IF r.err = "EOF"
    THEN [c EXCEPT !.eof = TRUE, !.wpc = "close"]
    ELSE [c EXCEPT
            !.worker = r.c,
            !.toDriver = IF c.i = 1
                         THEN WritePacket(r.c, @, DataPacket(NoToken)).wire
                         ELSE @,
            !.read = Append(@, r.pkt.token),
            !.i = @ + 1]

WorkerRead ==
    /\ ch.wpc = "read"
    /\ ReadPacket(ch.worker).err # "wait"
    /\ ChannelStep(WorkerReadPacket(ch, ReadPacket(ch.worker)))

\* lines 47-57
WorkerClose ==
    /\ ch.wpc = "close"
    /\ ChannelStep([ch EXCEPT
          !.worker = CloseChannel(@, ch.toDriver).c,
          !.toDriver = CloseChannel(ch.worker, @).wire,
          !.wpc = "done"])

\* the transport hands the oldest datagram in flight to its receiver
DeliverToWorker ==
    /\ ch.toWorker # <<>>
    /\ ChannelStep([ch EXCEPT !.worker = AcceptPacket(@, Head(ch.toWorker)),
                              !.toWorker = Tail(@)])

DeliverToDriver ==
    /\ ch.toDriver # <<>>
    /\ ChannelStep([ch EXCEPT !.driver = AcceptPacket(@, Head(ch.toDriver)),
                              !.toDriver = Tail(@)])


(***************************************************************************)
(* Specifications                                                          *)
(***************************************************************************)
InitWith(e, watch) ==
    /\ x = e
    /\ pc = [p \in Procs |-> "idle"]
    /\ ret = [p \in Procs |-> NoReturn]
    /\ lcl = [p \in DialProcs |-> NoLocals]
    /\ obs = [NoObs EXCEPT !.watch = watch]
    /\ sw = newSwitch(1)
    /\ ch = newChannelTest

\* Spec: the life of one exchange under one caller of each of Dial, Open
\* and deliverPacket, inbound packets, inbound handshakes and the three
\* timers.  The local side is the high one and the peer is seen at address
\* 1; its handshakes carry the seqs of LifeSeqs (one request, one response),
\* inbound packets the channel ids of LifeCIDs.
LifeSeqs == MinNow .. MaxNow
LifeSeqCap == MinNow + 2
LifeHandshakes == GoodHandshakes(LifeSeqs)
LifeCIDs == CIDs \ {0}
NoHeaderPacket ==
    [decodes |-> FALSE, hasC |-> FALSE, cid |-> 0, hasType |-> FALSE,
     listener |-> FALSE]
LifePackets ==
    {pkt \in Packets : /\ pkt.cid \in LifeCIDs
                       /\ pkt.decodes /\ pkt.hasC
                       /\ (pkt.listener => pkt.hasType)}
    \cup {NoHeaderPacket}

Init == InitWith(newExchange(TRUE, TRUE, <<1>>), FALSE)

Next ==
    \/ Dial("dial1", MinNow, TRUE, Addrs)
    \/ DialWake("dial1")
    \/ Open("open1")
    \/ deliverPacket("deliver1", TRUE)
    \/ receivedPacketCheck("rcv1")
    \/ \E pkt \in LifePackets : receivedPacketDeliver("rcv1", pkt)
    \/ \E id \in LifeCIDs : unregisterChannel(id)
    \/ ExpireFires
    \/ BreakFires
    \/ DeliverHandshakeFires(LifeSeqCap)
    \/ \E cb \in ExpireCallbacks : onExpireOrBreak(cb)
    \/ \E cb \in ExpireCallbacks : expireTeardown(cb)
    \/ onDeliverHandshake(MinNow, TRUE, Addrs)
    \/ \E h \in LifeHandshakes :
          ReceivedHandshakeCall(h, 1, MinNow, TRUE, InitLatency)

Spec == Init /\ [][Next]_vars

\* SpecDial: concurrent callers of Dial against inbound handshakes and the
\* timers, on either side of the parity.
InitDial == \E high \in BOOLEAN : InitWith(newExchange(high, TRUE, <<1>>), FALSE)

NextDial ==
    \/ \E p \in DialProcs, wrOK \in SUBSET Addrs : Dial(p, MinNow, TRUE, wrOK)
    \/ \E p \in DialProcs : DialWake(p)
    \/ ExpireFires
    \/ BreakFires
    \/ DeliverHandshakeFires(LifeSeqCap)
    \/ \E cb \in ExpireCallbacks : onExpireOrBreak(cb)
    \/ \E cb \in ExpireCallbacks : expireTeardown(cb)
    \/ onDeliverHandshake(MinNow, TRUE, Addrs)
    \/ \E h \in LifeHandshakes :
          ReceivedHandshakeCall(h, 1, MinNow, TRUE, InitLatency)

SpecDial == InitDial /\ [][NextDial]_vars

\* SpecBreak: an exchange that, once it is open, accepts no response any
\* more (requests still arrive), with callers of Dial, Open and
\* deliverPacket.  Time passes: the break timer, armed, fires in the end,
\* and its callback gets the mutex when the mutex is free.
NextBreak ==
    \/ Dial("dial1", MinNow, TRUE, Addrs)
    \/ DialWake("dial1")
    \/ \E p \in OpenProcs : Open(p)
    \/ \E ioOK \in BOOLEAN : deliverPacket("deliver1", ioOK)
    \/ \E id \in LifeCIDs : unregisterChannel(id)
    \/ ExpireFires
    \/ BreakFires
    \/ \E cb \in ExpireCallbacks : onExpireOrBreak(cb)
    \/ \E cb \in ExpireCallbacks : expireTeardown(cb)
    \/ \E h \in LifeHandshakes :
          /\ IsOpen(x.state) => ~isLocalSeq(x, h.at)
          /\ ReceivedHandshakeCall(h, 1, MinNow, TRUE, InitLatency)

FairBreak == WF_vars(BreakFires) /\ WF_vars(onExpireOrBreak("onBreak"))

SpecBreak == Init /\ [][NextBreak]_vars /\ FairBreak

\* SpecLive: the same steps, where moreover the expire timer, armed, fires
\* in the end, the callbacks get the mutex when it is free and a woken
\* Dial goes on when it can take the mutex again.
FairLive ==
    /\ FairBreak
    /\ WF_vars(ExpireFires)
    /\ WF_vars(onExpireOrBreak("onExpire"))
    /\ WF_vars(DialWake("dial1"))

SpecLive == Init /\ [][NextBreak]_vars /\ FairLive

\* SpecSeq: the sequence numbers of one exchange under inbound handshakes
\* of every seq, good and bad, through receivedHandshake and through
\* ApplyHandshake, and under generated handshakes, at every clock reading.
SeqHandshakes == GoodHandshakes(Seqs) \cup BadHandshakes({MaxNow})

InitSeq ==
    \E high \in BOOLEAN, remoteIdent \in BOOLEAN :
        InitWith(newExchange(high, remoteIdent, <<>>), TRUE)

NextSeq ==
    \/ \E h \in SeqHandshakes \ {NilHandshake}, n \in Nows, encOK \in BOOLEAN :
          ReceivedHandshakeCall(h, 1, n, encOK, FastLatency)
    \/ \E h \in SeqHandshakes, n \in Nows, encOK \in BOOLEAN :
          ApplyHandshake(h, 1, n, encOK, FastLatency)
    \/ \E n \in Nows, encOK \in BOOLEAN : GenerateHandshake(n, encOK)

SpecSeq == InitSeq /\ [][NextSeq]_vars

\* SpecBook: the address book alone, of an exchange made for an identity
\* that brings all but two of the addresses the book can hold.  The
\* addresses added later are the remaining ones of BookAddrs; the paths
\* that are probed are those of ProbeAddrs.
IdentAddrs == [i \in 1 .. (c_MAX_ADDRESS_BOOK_ENTRIES - 2) |-> i]
Range(s) == {s[i] : i \in DOMAIN s}

BookStep(book) ==
    /\ x' = [x EXCEPT !.addressBook = book]
    /\ UNCHANGED <<pc, ret, lcl, obs, elsewhere>>

BookAddAddress ==
    \E a \in BookAddrs \ Range(IdentAddrs) : BookStep(AddAddress(x.addressBook, a))

BookReceivedHandshake ==
    \E a \in ProbeAddrs, lat \in SampleLatencies :
        BookStep(ReceivedHandshake(x.addressBook, a, lat))

BookSentHandshake ==
    \E a \in ProbeAddrs : BookStep(SentHandshake(x.addressBook, a))

BookNextHandshakeEpoch == BookStep(NextHandshakeEpoch(x.addressBook))

InitBook == InitWith(newExchange(TRUE, TRUE, IdentAddrs), FALSE)

NextBook ==
    \/ BookAddAddress
    \/ BookReceivedHandshake
    \/ BookSentHandshake
    \/ BookNextHandshakeEpoch

SpecBook == InitBook /\ [][NextBook]_vars

\* SpecPeer: a switch serving peer and connect requests.
NextPeer ==
    \/ \E req \in PeerRequests : ServePeer(req)
    \/ \E req \in ConnectRequests, disc \in BOOLEAN : ServeConnect(req, disc)

SpecPeer == Init /\ [][NextPeer]_vars

\* SpecChannel: the channel-unreliable test, the driver's tokens being any
\* of Tokens.
NextChannel ==
    \/ \E token \in Tokens : DriverWrite(token)
    \/ DriverRead
    \/ DriverClose
    \/ WorkerRead
    \/ WorkerClose
    \/ DeliverToWorker
    \/ DeliverToDriver

SpecChannel == Init /\ [][NextChannel]_vars

(***************************************************************************)
(* Properties                                                              *)
(***************************************************************************)

\* the step in which the call of goroutine p returns
Returns(p) == pc[p] # "done" /\ pc'[p] = "done"
\* the step in which goroutine p enters its call
Enters(p) == pc[p] = "idle" /\ pc'[p] # "idle"

\* C1: Expired and Broken are terminal: no step of any operation changes
\* the state of an exchange that is Expired or Broken.
ClosedIsTerminal == [][IsClosed(x.state) => x'.state = x.state]_vars

\* an exchange that has expired, after which Dial and Open have returned
\* and the packet reader, the periodic handshake and both expiry callbacks
\* have run to their end
ClosedAndUsed ==
    /\ x.state = ExchangeExpired
    /\ ret["dial1"] = "BrokenExchangeError"
    /\ ret["open1"] = "BrokenExchangeError"
    /\ obs.closed = 1
    /\ \A cb \in Callbacks : pc[cb] = "idle"
    /\ ~x.tBreak

\* C2: a call of Dial returns only in a state other than Dialing, with nil
\* exactly when that state is Idle or Active and with BrokenExchangeError
\* exactly when it is Expired or Broken; a call emits a handshake, and the
\* exchange becomes Dialing, only in a call that found it Initialising.
DialContract ==
    [][\A p \in DialProcs :
         /\ Returns(p) =>
               /\ x'.state # ExchangeDialing
               /\ ret'[p] = "nil" <=> x'.state \in {ExchangeIdle, ExchangeActive}
               /\ ret'[p] = "BrokenExchangeError"
                     <=> x'.state \in {ExchangeExpired, ExchangeBroken}
         /\ Enters(p) =>
               /\ lcl'[p].dialed => x.state = ExchangeInitialising
               /\ lcl'[p].emitted => x.state = ExchangeInitialising
         /\ x.state # ExchangeDialing /\ x'.state = ExchangeDialing
               => x.state = ExchangeInitialising /\ \E q \in DialProcs : Enters(q)
      ]_vars

\* one call of Dial has emitted the handshake and returned nil, another
\* has returned BrokenExchangeError
DialBothOutcomes ==
    \E p, q \in DialProcs :
        /\ lcl[p].emitted /\ ret[p] = "nil"
        /\ ~lcl[q].dialed /\ ret[q] = "BrokenExchangeError"

\* C3: a call of Open returns nil only if it finds the exchange Idle or
\* Active; otherwise it returns BrokenExchangeError and leaves the channel
\* registry, nextChannelID, the state and the expire timer as they were.
OpenContract ==
    [][\A p \in OpenProcs :
         Returns(p) =>
            /\ ret'[p] = "nil" => IsOpen(x.state)
            /\ ~IsOpen(x.state) =>
                  /\ ret'[p] = "BrokenExchangeError"
                  /\ x'.channels = x.channels
                  /\ x'.nextChannelID = x.nextChannelID
                  /\ x'.state = x.state
                  /\ x'.tExpire = x.tExpire
      ]_vars

\* Open has failed on an exchange that broke, with a channel registered
\* and after Dial has failed too
OpenFailedOnBroken ==
    /\ ret["open1"] = "BrokenExchangeError"
    /\ ret["dial1"] = "BrokenExchangeError"
    /\ x.state = ExchangeBroken
    /\ DOMAIN x.channels # {}

\* C4: a call of Open that succeeds adds an id to the channel registry:
\* the id it assigns is not registered already, and no registered channel
\* is replaced.
OpenAssignsFreshID ==
    [][\A p \in OpenProcs :
         Returns(p) /\ ret'[p] = "nil" =>
            /\ DOMAIN x'.channels # DOMAIN x.channels
            /\ \A id \in DOMAIN x.channels : x'.channels[id] = x.channels[id]
      ]_vars

\* C5 (P3): the values getNextSeq returns are strictly increasing, so none
\* is returned twice, and each has the local parity.
P3_SeqsIncreaseWithLocalParity ==
    /\ obs.prevSeq # NoSeq => obs.lastSeq > obs.prevSeq
    /\ obs.lastSeq # NoSeq => isLocalSeq(x, obs.lastSeq)

\* C6: the seq of an accepted handshake is at least the seq of every
\* handshake accepted before it, through receivedHandshake or through
\* ApplyHandshake.
AcceptedSeqsNeverDecrease ==
    obs.accMax # NoSeq => obs.accLast >= obs.accMax

\* C7 (P6): a handshake that is accepted leaves the exchange in a state
\* in which the same handshake, applied again, changes neither the state,
\* the sequence numbers, the channel registry, the known addresses nor
\* their reachable flags, and triggers no ExchangeOpenedEvent; no exchange
\* triggers more than one ExchangeOpenedEvent.
ReachableFlags(book) ==
    {<<book.known[i].Address, book.known[i].Reachable>> : i \in 1 .. Len(book.known)}

SameForP6(e1, e2) ==
    /\ e1.state = e2.state
    /\ e1.lastRemoteSeq = e2.lastRemoteSeq
    /\ e1.lastLocalSeq = e2.lastLocalSeq
    /\ e1.nextSeq = e2.nextSeq
    /\ e1.channels = e2.channels
    /\ ReachableFlags(e1.addressBook) = ReachableFlags(e2.addressBook)

P6_HandshakeIdempotent ==
    /\ obs.opened <= 1
    /\ \A h \in SeqHandshakes, src \in Addrs, n \in Nows :
          LET r1 == receivedHandshake(x, h, src, n, TRUE, FastLatency)
              r2 == receivedHandshake(r1.x, h, src, n, TRUE, FastLatency)
              a1 == applyHandshake(x, h, src, n, TRUE, FastLatency)
              a2 == applyHandshake(a1.x, h, src, n, TRUE, FastLatency)
          IN  /\ r1.ok => SameForP6(r1.x, r2.x) /\ ~r2.opened
              /\ a1.ok => SameForP6(a1.x, a2.x) /\ ~a2.opened

ResponseIffRequest ==
    \A h \in SeqHandshakes, src \in Addrs, n \in Nows :
        LET r == applyHandshake(x, h, src, n, TRUE, FastLatency)
            i == indexOf(r.x.addressBook, src)
        IN  r.ok =>
              /\ r.response # NoPacket <=> ~isLocalSeq(x, h.at)
              /\ r.response # NoPacket => r.response = h.at
              /\ isLocalSeq(x, h.at) =>
                    /\ i # 0
                    /\ r.x.addressBook.known[i].GotResponse
                    /\ r.x.addressBook.known[i].Reachable

\* C10 (P4): after every operation of the address book the known list has
\* its reachable entries before its unreachable ones, each of the two
\* groups is in ascending order of latency, and the list has at most 16
\* entries.
P4_KnownSortedAndBounded ==
    LET known == x.addressBook.known
    IN  /\ Len(known) <= 16
        /\ \A i, j \in 1 .. Len(known) :
              i < j => /\ known[j].Reachable => known[i].Reachable
                       /\ known[i].Reachable = known[j].Reachable
                             => known[i].latency <= known[j].latency

\* a full book that has dropped an entry for the last address added, and
\* holds broken paths and a path faster than the initial latency
P4_FullBookAfterDrop ==
    LET known == x.addressBook.known
    IN  /\ Len(known) = c_MAX_ADDRESS_BOOK_ENTRIES
        /\ indexOf(x.addressBook, MaxBookAddr) # 0
        /\ \E a \in BookAddrs : indexOf(x.addressBook, a) = 0
        /\ \E i \in 1 .. Len(known) : ~known[i].Reachable
        /\ \E i \in 1 .. Len(known) : known[i].latency < InitLatency

\* C11: after every operation of the address book, active is the address
\* of the first entry of known if that entry is reachable and none
\* otherwise; so it is never the address of an unreachable entry or of an
\* entry that is no longer in known.
ActiveIsFirstReachable ==
    LET book == x.addressBook
        i    == indexOf(book, book.active)
    IN  /\ book.active = IF Len(book.known) > 0 /\ book.known[1].Reachable
                         THEN book.known[1].Address ELSE NoAddr
        /\ book.active # NoAddr => i # 0 /\ book.known[i].Reachable

\* the address that was active at first has been evicted and another one
\* is active
FirstActiveEvicted ==
    /\ indexOf(x.addressBook, 1) = 0
    /\ x.addressBook.active # NoAddr
    /\ Len(x.addressBook.known) = c_MAX_ADDRESS_BOOK_ENTRIES

\* C12: from any state of the address book, two NextHandshakeEpoch calls
\* with no response between them leave no entry reachable; an entry that
\* gets a response between the two is reachable after the second while
\* every other entry is not, and it is then the active address.  The
\* entries that answer are those of the probed addresses and the last one
\* of known.
LastKnown(book) ==
    IF book.known = <<>> THEN {} ELSE {book.known[Len(book.known)].Address}

EpochsDetectBrokenPaths ==
    LET b1 == NextHandshakeEpoch(x.addressBook)
        b2 == NextHandshakeEpoch(b1)
    IN  /\ \A i \in 1 .. Len(b2.known) : ~b2.known[i].Reachable
        /\ b2.active = NoAddr
        /\ \A a \in ProbeAddrs \cup LastKnown(b1), lat \in SampleLatencies :
              LET b3 == NextHandshakeEpoch(ReceivedHandshake(b1, a, lat))
              IN  indexOf(b1, a) # 0 =>
                    /\ indexOf(b3, a) # 0
                    /\ \A i \in 1 .. Len(b3.known) :
                          b3.known[i].Reachable <=> b3.known[i].Address = a
                    /\ b3.active = a

\* the path that was active at first is broken and the active address
\* has switched to the last address added
PathSwitched ==
    LET i == indexOf(x.addressBook, 1)
    IN  /\ i # 0
        /\ ~x.addressBook.known[i].Reachable
        /\ x.addressBook.active = MaxBookAddr

(***************************************************************************)
(* C13: a relay answers a peer request with a connect channel only when    *)
(* the requested hashname parses, is neither the relay's own nor the       *)
(* sender's, the sender's public key is known and the relay knows the      *)
(* requested peer; the connect then goes to that peer.  Whenever one of    *)
(* the checks fails, the handler opens no channel.                         *)
(***************************************************************************)
PeerConnectOnlyWhenChecked ==
    \A req \in PeerRequests :
        LET call == serve_peer(sw, req)
            parsed == HashnameFromString(req.Peer)
        IN  IF /\ ~req.err
               /\ ~parsed.err
               /\ parsed.hashname # sw.hashname
               /\ parsed.hashname # req.addr.hashname
               /\ req.addr.pubkey # NoKey
               /\ parsed.hashname \in DOMAIN sw.peers
            THEN call # NoCall =>
                   /\ call.op = "OpenChannel"
                   /\ call.Type = "connect"
                   /\ call.to = parsed.hashname
            ELSE call = NoCall

\* the relay has served a peer request of a sender other than the
\* requested peer, opening a connect channel to a peer it knows
ConnectOpened ==
    /\ sw.called.op = "OpenChannel"
    /\ sw.called.to \in DOMAIN sw.peers
    /\ sw.called.to # sw.hashname

(***************************************************************************)
(* C14: a connect request whose body decodes to a public key and whose     *)
(* ip and port form an address makes the recipient add the described peer  *)
(* and call Seek for that peer's hashname, whatever AddPeer reports.       *)
(***************************************************************************)
ConnectAddsAndSeeks ==
    \A req \in ConnectRequests \ {PopError}, disc \in BOOLEAN :
        LET addr == make_addr(req.IP, req.Port, dec_DER_RSA(req.body).pubkey)
            after == serve_connect(sw, req, disc)
        IN  ~dec_DER_RSA(req.body).err /\ ~addr.err =>
              /\ addr.hashname \in DOMAIN after.peers
              /\ after.called = [op |-> "Seek", to |-> addr.hashname]

(***************************************************************************)
(* C15: on an unreliable channel over a transport that neither drops nor   *)
(* reorders, the i-th packet the receiver's ReadPacket returns is the i-th *)
(* packet the sender wrote, and after the sender closed the channel        *)
(* ReadPacket returns EOF only once every delivered packet has been read.  *)
(***************************************************************************)
UnreliableReadsInWriteOrder ==
    /\ Len(ch.read) <= Len(ch.written)
    /\ \A i \in 1 .. Len(ch.read) : ch.read[i] = ch.written[i]
    /\ ch.eof => /\ ch.driver.ended_local
                 /\ ch.worker.buf = <<>>
                 /\ ch.read = ch.written

\* the worker has read three packets with differing tokens and then EOF
ReadAllThenEOF ==
    /\ ch.eof
    /\ Len(ch.read) = 3
    /\ ch.read[1] # ch.read[2]

(***************************************************************************)
(* C16: the expire timer is armed only while the exchange is Idle (never   *)
(* in Initialising, Dialing or Active), the exchange becomes Expired only  *)
(* from Idle, and a Dial that gets no answer is ended by the break timer   *)
(* (Broken), not by the expire timer.                                      *)
(***************************************************************************)
ExpireTimerOnlyWhileIdle ==
    [][/\ x.tExpire => x.state = ExchangeIdle
       /\ x'.tExpire => x'.state = ExchangeIdle
       /\ x'.state = ExchangeExpired /\ x.state # ExchangeExpired
             => x.state = ExchangeIdle
       /\ x.state = ExchangeDialing /\ IsClosed(x'.state)
             => x'.state = ExchangeBroken]_vars

(***************************************************************************)
(* C17: an exchange with a registered channel is never expired by the      *)
(* expire timer, however the expire callback's wait for the mutex          *)
(* interleaves with Open or an inbound packet that creates a channel:      *)
(* there is no step from Active to Expired.                                *)
(***************************************************************************)
ActiveNeverExpires ==
    [][x.state = ExchangeActive \/ DOMAIN x.channels # {}
          => x'.state # ExchangeExpired]_vars

(***************************************************************************)
(* C18: a deliverPacket that finds the exchange not open returns           *)
(* BrokenExchangeError with the mutex released, so that every other        *)
(* operation can still acquire it.                                         *)
(***************************************************************************)
DeliverPacketReleasesMutex ==
    \A p \in DeliverProcs :
        pc[p] = "done" /\ ret[p] = "BrokenExchangeError" => ~x.mtx

(***************************************************************************)
(* C19: once the exchange is Expired or Broken no channel is added to its  *)
(* registry, however receivedPacket and Open interleave with the timers;   *)
(* so every channel ever registered is there when the close tears the      *)
(* channels down.                                                          *)
(***************************************************************************)
NoChannelOnceClosed ==
    [][IsClosed(x.state) => DOMAIN x'.channels \subseteq DOMAIN x.channels]_vars

(***************************************************************************)
(* C20: once the exchange is Expired or Broken it is quiescent: none of    *)
(* its three timers is armed again, the periodic callback sends no         *)
(* handshake and an inbound handshake gets no response.                    *)
(***************************************************************************)
QuiescentOnceClosed ==
    [][IsClosed(x.state) =>
         /\ x'.tBreak => x.tBreak
         /\ x'.tExpire => x.tExpire
         /\ x'.tDeliverHandshake => x.tDeliverHandshake
         /\ pc["onDeliverHandshake"] = "pending"
               => ~onDeliverHandshakeBody(x, MinNow, TRUE, Addrs).sent
         /\ \A h \in LifeHandshakes :
               applyHandshake(x, h, 1, MinNow, TRUE, FastLatency).response = NoPacket]_vars

(***************************************************************************)
(* C21: every call of Dial returns in the end, given that armed timers     *)
(* fire in the end: a caller waiting in Dialing is woken by the accepted   *)
(* handshake or by the timer that ends the exchange, and no step out of    *)
(* Dialing leaves a waiter asleep.                                         *)
(***************************************************************************)
DialEventuallyReturns ==
    /\ \A p \in {"dial1"} : (pc[p] = "wait") ~> (pc[p] = "done")
    /\ [][x.state = ExchangeDialing /\ x'.state # ExchangeDialing
             => x'.waiters = {}]_vars

(***************************************************************************)
(* C22: while the exchange is open its state is Active exactly when the    *)
(* channel registry is not empty, and Idle exactly when it is empty.       *)
(***************************************************************************)
ActiveIffChannels ==
    IsOpen(x.state) =>
        /\ x.state = ExchangeActive <=> DOMAIN x.channels # {}
        /\ x.state = ExchangeIdle <=> DOMAIN x.channels = {}

\* Open registered a channel, which made the exchange Active, and the
\* channel has been unregistered since: the exchange is Idle again
IdleAgainAfterUnregister ==
    /\ ret["open1"] = "nil"
    /\ x.state = ExchangeIdle
    /\ DOMAIN x.channels = {}

(***************************************************************************)
(* C23: getNextSeq returns the smallest value of local parity that is at   *)
(* least max(now, lastRemoteSeq + 1, lastLocalSeq + 1, nextSeq) and sets   *)
(* nextSeq to that value plus 2; so what it returns is greater than both   *)
(* lastRemoteSeq and lastLocalSeq.                                         *)
(***************************************************************************)
Max(S) == CHOOSE m \in S : \A k \in S : k <= m

GetNextSeqIsLeastAbove ==
    \A n \in Nows :
        LET r == getNextSeq(x, n)
            m == Max({n, x.lastRemoteSeq + 1, x.lastLocalSeq + 1, x.nextSeq})
        IN  /\ isLocalSeq(x, r.seq)
            /\ m <= r.seq /\ r.seq <= m + 1
            /\ r.x.nextSeq = (r.seq + 2) % SeqMod
            /\ r.seq > x.lastRemoteSeq
            /\ r.seq > x.lastLocalSeq

(***************************************************************************)
(* C24: the exchange never produces a handshake with seq 0: getNextSeq     *)
(* never returns 0, whatever nextSeq, lastLocalSeq and lastRemoteSeq are   *)
(* (also next to the wrap-around), and a request with seq 0 is never       *)
(* answered by a response with seq 0.                                      *)
(***************************************************************************)
NeverSeqZero ==
    \A n \in Nows :
        /\ getNextSeq(x, n).seq # 0
        /\ \A h \in GoodHandshakes({0}) :
              applyHandshake(x, h, 1, n, TRUE, FastLatency).response # 0

(***************************************************************************)
(* C25: the break timer is armed again exactly when a handshake whose seq  *)
(* has local parity (a response) is accepted; accepted requests, rejected  *)
(* handshakes, channel packets and the opening and closing of channels     *)
(* leave the break timer as it is.                                         *)
(***************************************************************************)
\* Stated for the states in which the timer is not armed (it has fired, or
\* was stopped), where arming it shows.
BreakResetOnlyByResponse ==
    ~x.tBreak =>
        /\ \A h \in LifeHandshakes \cup BadHandshakes(LifeSeqs) :
              LET r == receivedHandshake(x, h, 1, MinNow, TRUE, InitLatency)
              IN  r.x.tBreak = (r.ok /\ isLocalSeq(x, h.at))
        /\ ~OpenBody(x).x.tBreak
        /\ \A pkt \in LifePackets : ~receivedPacketRegister(x, pkt).tBreak
        /\ \A id \in LifeCIDs : ~unregisterChannelBody(x, id).tBreak

\* the break timer has fired and, its callback not having run yet, an
\* accepted response has armed it again
BreakRearmedAfterFiring == pc["onBreak"] = "pending" /\ x.tBreak

(***************************************************************************)
(* C26: when applyHandshake rejects a handshake (a nil one, a seq below    *)
(* lastRemoteSeq, another CSID, rejection by the cipher, an invalid        *)
(* identity, or failure to generate the response), the state of the        *)
(* exchange, lastRemoteSeq, lastLocalSeq, nextSeq, the address book and    *)
(* the timers are as before, no ExchangeOpened is emitted and no response  *)
(* is sent.                                                                *)
(***************************************************************************)
RejectedChangesNothing ==
    \A h \in SeqHandshakes, n \in Nows, encOK \in BOOLEAN :
        LET r == receivedHandshake(x, h, 1, n, encOK, FastLatency)
        IN  ~r.ok =>
              /\ r.x.state = x.state
              /\ r.x.lastRemoteSeq = x.lastRemoteSeq
              /\ r.x.lastLocalSeq = x.lastLocalSeq
              /\ r.x.nextSeq = x.nextSeq
              /\ r.x.addressBook = x.addressBook
              /\ r.x.tBreak = x.tBreak
              /\ r.x.tExpire = x.tExpire
              /\ r.x.tDeliverHandshake = x.tDeliverHandshake
              /\ ~r.opened
              /\ r.response = NoPacket

(***************************************************************************)
(* C27: an exchange leaves Dialing for Idle only when a response (a        *)
(* handshake whose seq has local parity) is accepted; an accepted request  *)
(* received while Dialing neither opens the exchange nor releases the      *)
(* waiters of Dial.                                                        *)
(***************************************************************************)
OnlyResponseOpensDialing ==
    [][x.state = ExchangeDialing =>
         /\ IsOpen(x'.state) =>
               \E h \in LifeHandshakes :
                   /\ isLocalSeq(x, h.at)
                   /\ x' = receivedHandshake(x, h, 1, MinNow, TRUE, InitLatency).x
         /\ \A h \in LifeHandshakes :
               LET r == receivedHandshake(x, h, 1, MinNow, TRUE, InitLatency)
               IN  r.ok /\ ~isLocalSeq(x, h.at) =>
                     /\ r.x.state = ExchangeDialing
                     /\ r.x.waiters = x.waiters
                     /\ ~r.opened]_vars

(***************************************************************************)
(* C28: an inbound packet creates a channel if and only if the exchange    *)
(* is open, the packet decrypts, carries a channel id that is not          *)
(* registered, carries a type, and the type has a listener; the channel    *)
(* is registered under the packet's id and the exchange becomes Active.    *)
(* In every other case the registry, the state and the expire timer are    *)
(* as before.                                                              *)
(***************************************************************************)
PacketCreatesChannelIffAccepted ==
    \A p \in PacketProcs :
        pc[p] = "checked" =>
            \A pkt \in LifePackets :
                LET after == IF ~pkt.decodes \/ ~pkt.hasC THEN x
                             ELSE receivedPacketRegister(x, pkt)
                IN  IF /\ pkt.decodes /\ pkt.hasC /\ pkt.hasType /\ pkt.listener
                       /\ pkt.cid \notin DOMAIN x.channels
                    THEN /\ IsOpen(x.state)
                         /\ DOMAIN after.channels = DOMAIN x.channels \cup {pkt.cid}
                         /\ after.channels[pkt.cid] = newChannel(TRUE)
                         /\ after.state = ExchangeActive
                    ELSE /\ after.channels = x.channels
                         /\ after.state = x.state
                         /\ after.tExpire = x.tExpire

(***************************************************************************)
(* C29: of several tasks that call Dial on an Initialising exchange,       *)
(* exactly one makes the step from Initialising to Dialing and emits the   *)
(* initial handshake; the others only wait: the calls of Dial cause at     *)
(* most one dial-triggered handshake broadcast per exchange.  (The         *)
(* encryption of the handshake succeeds in SpecDial.)                      *)
(***************************************************************************)
OneDialerOnly ==
    [][/\ \A p, q \in DialProcs :
             lcl'[p].dialed /\ lcl'[q].dialed => p = q
       /\ \A p \in DialProcs :
             /\ lcl'[p].emitted => lcl'[p].dialed
             /\ Enters(p) =>
                   /\ lcl'[p].dialed <=> x.state = ExchangeInitialising
                   /\ lcl'[p].dialed => lcl'[p].emitted /\ x'.state = ExchangeDialing
                   /\ ~lcl'[p].dialed => x'.state = x.state]_vars

\* two tasks have called Dial while no handshake was accepted: one has
\* dialed and emitted the handshake, the other only waits
SecondDialerWaits ==
    \E p, q \in DialProcs :
        /\ lcl[p].dialed /\ lcl[p].emitted
        /\ pc[q] = "wait" /\ ~lcl[q].dialed
        /\ x.state = ExchangeDialing

(***************************************************************************)
(* C30: HandshakeAddresses returns exactly the first min(5, number of      *)
(* reachable entries) entries of known, in order: every address returned   *)
(* is reachable, there are never more than 5, and no reachable entry is    *)
(* skipped in favour of a worse one.                                       *)
(***************************************************************************)
ReachableCount(book) ==
    Cardinality({i \in 1 .. Len(book.known) : book.known[i].Reachable})

HandshakeAddressesAreBestReachable ==
    LET book == x.addressBook
        s    == HandshakeAddresses(book)
        k    == ReachableCount(book)
    IN  /\ Len(s) = IF k < 5 THEN k ELSE 5
        /\ \A i \in 1 .. Len(s) :
              /\ s[i] = book.known[i].Address
              /\ book.known[i].Reachable

\* a book with unreachable entries and fewer than 5 reachable ones
FewReachablePaths ==
    /\ ReachableCount(x.addressBook) \in 1 .. 4
    /\ Len(x.addressBook.known) > 5


(***************************************************************************)
(* C31: path recovery.  Whenever receivedHandshake accepts a handshake     *)
(* from source address 1, a request or a response, and the address book    *)
(* holds fewer than c_MAX_ADDRESS_BOOK_ENTRIES entries, the book then      *)
(* knows address 1 and has it reachable: a path that an epoch without      *)
(* response had marked unreachable is usable again.                        *)
(***************************************************************************)
KnownReachable(book, addr) ==
    \E i \in 1 .. Len(book.known) :
        book.known[i].Address = addr /\ book.known[i].Reachable

AcceptedHandshakeRecoversPath ==
    Len(x.addressBook.known) < c_MAX_ADDRESS_BOOK_ENTRIES =>
        \A h \in LifeHandshakes :
            LET r == receivedHandshake(x, h, 1, MinNow, TRUE, InitLatency)
            IN  r.ok => KnownReachable(r.x.addressBook, 1)

=============================================================================
